---- MODULE Spec2Model ----
(***************************************************************************)
(* PrEx (promoter extraction), prex.py: identifier classification,         *)
(* principal-isoform validation, strand-aware promoter interval and the    *)
(* per-identifier main loop that hands the interval to bedtools getfasta.  *)
(*                                                                         *)
(* Strings that the program inspects character by character (identifiers   *)
(* and the annotation's id columns) are sequences of one-character strings.*)
(***************************************************************************)
EXTENDS Integers, Sequences, FiniteSets, TLC

VARIABLES
    annot,            \* the loaded annotation: a sequence of records (rows)
    identifiers,      \* args.identifiers
    up, down,         \* args.up, args.down
    i,                \* position of the for loop in args.identifiers
    pc,               \* position inside main: decode/validate/region/extract/done/crashed
    id_type,          \* main's local id_type
    id_column,        \* main's local id_column
    primary_isoform,  \* main's local primary_isoform
    region,           \* main's local region
    stdout,           \* lines printed by warn / info / print()
    validated,        \* identifiers for which validate_identifier returned True
    extractions,      \* calls of bedtools_cmd, in order
    error             \* the uncaught exception that ended the run, or "none"

vars == <<annot, identifiers, up, down, i, pc, id_type, id_column,
          primary_isoform, region, stdout, validated, extractions, error>>

-----------------------------------------------------------------------------
(* Bounds of the model *)

MaxSymLen == 3      \* longest free-form identifier drawn over Alphabet
MaxRows == 2        \* most rows in an enumerated annotation
MaxBatch == 2       \* most identifiers in an enumerated batch
MaxOffset == 3      \* |up|, |down| range in the enumerated offsets

-----------------------------------------------------------------------------
(* Characters and the regular expressions of decode_id *)

Upper == {"A","B","C","D","E","F","G","H","I","J","K","L","M",
          "N","O","P","Q","R","S","T","U","V","W","X","Y","Z"}
Lower == {"a","b","c","d","e","f","g","h","i","j","k","l","m",
          "n","o","p","q","r","s","t","u","v","w","x","y","z"}
Digit == {"0","1","2","3","4","5","6","7","8","9"}

Rep(cls, n) == [k \in 1..n |-> cls]

\* A pattern is a sequence of character classes, one per consumed character.
\* A trailing {1,} needs one character only for the search to succeed.
re_ENST   == <<{"E"}, {"N"}, {"S"}, {"T"}>> \o Rep(Digit, 11)
re_ENSG   == <<{"E"}, {"N"}, {"S"}, {"G"}>> \o Rep(Digit, 11)
re_UCSC   == <<{"u"}, {"c"}>> \o Rep(Digit, 3) \o Rep(Lower, 3) \o <<{"."}>>
re_REFSEQ == <<{"N","X"}, {"G","M"}, {"_"}>>
re_SYMBOL == <<Upper \cup Digit, Upper \cup Lower \cup Digit>>

MatchAt(pat, s, p) ==
    /\ p + Len(pat) - 1 <= Len(s)
    /\ \A k \in 1..Len(pat) : s[p + k - 1] \in pat[k]

\* re.search with a pattern that starts with ^
search_anchored(pat, s) == MatchAt(pat, s, 1)

\* re.search with a pattern without ^ : a match anywhere in the string
search(pat, s) == \E p \in 1..Len(s) : MatchAt(pat, s, p)

-----------------------------------------------------------------------------
(* Constants of prex.py *)

ENST == 1
ENSG == 2
UCSC == 3
REFSEQ == 4
SYMBOL == 5
None == 0           \* Python's None (falsy, and no key of the two tables)

id_descriptions ==
    [t \in {ENST, ENSG, UCSC, REFSEQ, SYMBOL} |->
        CASE t = ENST   -> "ensembl! transcript"
          [] t = ENSG   -> "ensembl! gene"
          [] t = UCSC   -> "UCSC transcript id"
          [] t = REFSEQ -> "NCBI Refseq id"
          [] t = SYMBOL -> "Official gene symbol"]

id_gff3_names ==
    [t \in {ENST, ENSG, UCSC, REFSEQ, SYMBOL} |->
        CASE t = ENST   -> "transcript_id"
          [] t = ENSG   -> "gene_id"
          [] t = UCSC   -> "TBD"
          [] t = REFSEQ -> "TBD"
          [] t = SYMBOL -> "gene_name"]

warn(msg) == [level |-> "[* ]", msg |-> msg]
info(msg) == [level |-> "[ok]", msg |-> msg]
blank == [level |-> "", msg |-> <<>>]

\* decode_id with the Symbol pattern tried first
decode_id_symbol_first(identifier) ==
    IF search(re_SYMBOL, identifier) THEN [ret |-> SYMBOL, out |-> <<>>]
    ELSE IF search_anchored(re_ENST, identifier) THEN [ret |-> ENST, out |-> <<>>]
    ELSE IF search_anchored(re_ENSG, identifier) THEN [ret |-> ENSG, out |-> <<>>]
    ELSE IF search_anchored(re_UCSC, identifier) THEN [ret |-> UCSC, out |-> <<>>]
    ELSE IF search_anchored(re_REFSEQ, identifier) THEN [ret |-> REFSEQ, out |-> <<>>]
    ELSE [ret |-> None,
          out |-> <<warn(<<"I was unable to understand your gene id: ", identifier>>)>>]

\* decode_id: the kind, and the lines it prints
decode_id(identifier) ==
    IF search_anchored(re_ENST, identifier) THEN [ret |-> ENST, out |-> <<>>]
    ELSE IF search_anchored(re_ENSG, identifier) THEN [ret |-> ENSG, out |-> <<>>]
    ELSE IF search_anchored(re_UCSC, identifier) THEN [ret |-> UCSC, out |-> <<>>]
    ELSE IF search_anchored(re_REFSEQ, identifier) THEN [ret |-> REFSEQ, out |-> <<>>]
    ELSE IF search(re_SYMBOL, identifier) THEN [ret |-> SYMBOL, out |-> <<>>]
    ELSE [ret |-> None,
          out |-> <<warn(<<"I was unable to understand your gene id: ", identifier>>)>>]

-----------------------------------------------------------------------------
(* The annotation dataframe *)

NaN == "NaN"        \* a missing value of the appris_principal column

\* the columns of the dataframe gtf.dataframe returns; 'TBD' is none of them
Columns == {"seqname", "start", "end", "strand", "feature", "gene_id",
            "gene_name", "transcript_id", "transcript_name", "appris_principal"}

\* df.dropna(subset=['appris_principal'])
dropna(df) ==
    LET keep(r) == r.appris_principal # NaN IN SelectSeq(df, keep)

\* df.drop_duplicates(): the first occurrence of each row, in order
RECURSIVE drop_duplicates(_)
drop_duplicates(df) ==
    IF df = <<>> THEN <<>>
    ELSE LET init == drop_duplicates(SubSeq(df, 1, Len(df) - 1))
             last == df[Len(df)]
         IN IF \E k \in DOMAIN init : init[k] = last THEN init
            ELSE Append(init, last)

\* validate_identifier counting the principal start-codon rows, not their
\* distinct (start, end) pairs
validate_identifier_no_dedup(df, column, identifier) ==
    IF column \notin Columns
    THEN [raised |-> "KeyError", ret |-> FALSE, out |-> <<>>]
    ELSE
    LET this(r) == r[column] = identifier
        _this_gene == SelectSeq(df, this)
        sub == dropna(_this_gene)
        codon(r) == r.feature = "start_codon"
        principal_count == Len(SelectSeq(sub, codon))
    IN IF Len(_this_gene) = 0
       THEN [raised |-> "none", ret |-> FALSE,
             out |-> <<warn(<<"no ", column, " known by this identifier: ", identifier>>)>>]
       ELSE IF principal_count = 0
       THEN [raised |-> "none", ret |-> FALSE,
             out |-> <<warn(<<"no principal isoform found for ", identifier>>)>>]
       ELSE IF principal_count > 1
       THEN [raised |-> "none", ret |-> FALSE,
             out |-> <<warn(<<"too many primary isoforms for ", identifier>>)>>]
       ELSE [raised |-> "none", ret |-> TRUE, out |-> <<>>]

\* validate_identifier: the exception it raises, its value, the lines it prints
validate_identifier(df, column, identifier) ==
    IF column \notin Columns
    THEN [raised |-> "KeyError", ret |-> FALSE, out |-> <<>>]
    ELSE
    LET this(r) == r[column] = identifier
        _this_gene == SelectSeq(df, this)
        sub == dropna(_this_gene)
        codon(r) == r.feature = "start_codon"
        coords == [k \in DOMAIN SelectSeq(sub, codon) |->
                     <<SelectSeq(sub, codon)[k].start, SelectSeq(sub, codon)[k].end>>]
        principal_count == Len(drop_duplicates(coords))
    IN IF Len(_this_gene) = 0
       THEN [raised |-> "none", ret |-> FALSE,
             out |-> <<warn(<<"no ", column, " known by this identifier: ", identifier>>)>>]
       ELSE IF principal_count = 0
       THEN [raised |-> "none", ret |-> FALSE,
             out |-> <<warn(<<"no principal isoform found for ", identifier>>)>>]
       ELSE IF principal_count > 1
       THEN [raised |-> "none", ret |-> FALSE,
             out |-> <<warn(<<"too many primary isoforms for ", identifier>>)>>]
       ELSE [raised |-> "none", ret |-> TRUE, out |-> <<>>]

\* main's principals: the principal rows projected on five columns, deduplicated
principals(df) ==
    LET nn == dropna(df)
    IN drop_duplicates([k \in DOMAIN nn |->
           [gene_name |-> nn[k].gene_name, gene_id |-> nn[k].gene_id,
            transcript_name |-> nn[k].transcript_name,
            transcript_id |-> nn[k].transcript_id,
            appris_principal |-> nn[k].appris_principal]])

\* principals[principals[id_column]==identifier]['transcript_id'].values[0]
pick_primary_isoform(df, column, identifier) ==
    LET this(r) == r[column] = identifier
        rows == SelectSeq(principals(df), this)
    IN IF rows = <<>> THEN [raised |-> "IndexError", ret |-> <<>>]
       ELSE [raised |-> "none", ret |-> rows[1].transcript_id]

\* annot[annot['transcript_id']==primary_isoform]
transcript_rows(df, transcript) ==
    LET this(r) == r.transcript_id = transcript IN SelectSeq(df, this)

-----------------------------------------------------------------------------
(* Region and do_gff3_stuff *)

Region(chrom, start, end, name, score, strand) ==
    [chrom |-> chrom, start |-> start, end |-> end,
     name |-> name, score |-> score, strand |-> strand]

NoRegion == Region("", 0, 0, <<>>, "", "")

\* Region.__bool__: any field truthy
Region_bool(r) ==
    \/ r.chrom # ""
    \/ r.start # 0
    \/ r.end # 0
    \/ r.name # <<>>
    \/ r.score # ""
    \/ r.strand # ""

\* do_gff3_stuff without the swap of the offsets on the minus strand
do_gff3_stuff_no_swap(principal, column, identifier, u, d) ==
    LET codon(r) == r.feature = "start_codon"
        start_codon == SelectSeq(principal, codon)
    IN IF start_codon = <<>>
       THEN [raised |-> "IndexError", ret |-> NoRegion]
       ELSE LET CDS == start_codon[1].start
                chrom == start_codon[1].seqname
                strand == start_codon[1].strand
            IN IF strand \in {"+", "-"}
               THEN [raised |-> "none",
                     ret |-> Region(chrom, CDS - u, CDS + d, identifier, ".", strand)]
               ELSE [raised |-> "UnboundLocalError", ret |-> NoRegion]

\* do_gff3_stuff with the two ends of the minus-strand interval exchanged
do_gff3_stuff_minus_reversed(principal, column, identifier, u, d) ==
    LET codon(r) == r.feature = "start_codon"
        start_codon == SelectSeq(principal, codon)
    IN IF start_codon = <<>>
       THEN [raised |-> "IndexError", ret |-> NoRegion]
       ELSE LET CDS == start_codon[1].start
                chrom == start_codon[1].seqname
                strand == start_codon[1].strand
            IN IF strand = "+"
               THEN [raised |-> "none",
                     ret |-> Region(chrom, CDS - u, CDS + d, identifier, ".", strand)]
               ELSE IF strand = "-"
               THEN [raised |-> "none",
                     ret |-> Region(chrom, CDS + u, CDS - d, identifier, ".", strand)]
               ELSE [raised |-> "UnboundLocalError", ret |-> NoRegion]

do_gff3_stuff(principal, column, identifier, u, d) ==
    LET codon(r) == r.feature = "start_codon"
        start_codon == SelectSeq(principal, codon)
    IN IF start_codon = <<>>
       THEN [raised |-> "IndexError", ret |-> NoRegion]
       ELSE LET CDS == start_codon[1].start
                chrom == start_codon[1].seqname
                strand == start_codon[1].strand
            IN IF strand = "+"
               THEN [raised |-> "none",
                     ret |-> Region(chrom, CDS - u, CDS + d, identifier, ".", strand)]
               ELSE IF strand = "-"
               THEN [raised |-> "none",
                     ret |-> Region(chrom, CDS - d, CDS + u, identifier, ".", strand)]
               ELSE [raised |-> "UnboundLocalError", ret |-> NoRegion]

-----------------------------------------------------------------------------
(* bedtools *)

\* what `bedtools --version` can do: fail, or report a version <<major, minor>>
ProbeOutcomes == {<<"error">>, <<2, 24>>, <<2, 25>>, <<2, 26>>}
ExitCodes == {0, 1}

\* using_new_bedtools: check_output raises on a failing probe
using_new_bedtools(probe) ==
    IF probe = <<"error">>
    THEN [raised |-> "CalledProcessError", ret |-> FALSE]
    ELSE [raised |-> "none",
          ret |-> ~ (probe[1] < 2 \/ (probe[1] = 2 /\ probe[2] < 25))]

\* bedtools_cmd: the exception raised, the command run and the lines printed;
\* the return code of subprocess.call is dropped
bedtools_cmd(r, identifier, fasta_out, probe, returncode) ==
    LET bed_name == <<r.name, ";promoter;", r.chrom, ":", r.start, "-", r.end,
                      "(", r.strand, ")">>
        bed_fields == <<r.chrom, r.start, r.end, bed_name, r.score, r.strand>>
        new == using_new_bedtools(probe)
        cmd == <<"bedtools", "getfasta", "-name", "-s", "-fi", "fasta", "-bed", bed_fields,
                 "-fo", fasta_out>>
    IN IF new.raised # "none"
       THEN [raised |-> new.raised, out |-> <<>>,
             call |-> [identifier |-> identifier, fasta_out |-> fasta_out,
                       bed |-> bed_fields, cmd |-> <<>>, redirect |-> FALSE,
                       probe_failed |-> TRUE, exit |-> 0]]
       ELSE LET run == IF new.ret THEN SubSeq(cmd, 1, Len(cmd) - 2) ELSE cmd
            IN [raised |-> "none",
                out |-> <<info(<<"Running ", run>>)>>,
                call |-> [identifier |-> identifier, fasta_out |-> fasta_out,
                          bed |-> bed_fields, cmd |-> run, redirect |-> new.ret,
                          probe_failed |-> FALSE, exit |-> returncode]]

-----------------------------------------------------------------------------
(* Inputs: identifiers *)

id_ENST_A1 == <<"E","N","S","T","0","0","0","0","0","2","6","9","3","0","5">>
id_ENST_A2 == <<"E","N","S","T","0","0","0","0","0","3","8","0","1","5","2">>
id_ENST_B  == <<"E","N","S","T","0","0","0","0","0","3","5","7","6","5","4">>
id_ENSG_A  == <<"E","N","S","G","0","0","0","0","0","1","4","1","5","1","0">>
id_ENSG_B  == <<"E","N","S","G","0","0","0","0","0","0","1","2","0","4","8">>
id_TP53    == <<"T","P","5","3">>
id_BRCA1   == <<"B","R","C","A","1">>
id_FAKE    == <<"F","A","K","E","G","E","N","E">>
id_UCSC    == <<"u","c","0","0","2","g","i","j",".","4">>
id_REFSEQ  == <<"N","M","_","0","0","0","5","4","6">>
id_UNKNOWN == <<"t","p">>

\* one identifier of each kind, for the batches
BatchIds == {id_ENST_A1, id_ENSG_A, id_TP53, id_FAKE, id_UCSC, id_REFSEQ, id_UNKNOWN}

SeqsUpTo(S, n) == UNION {[1..k -> S] : k \in 0..n}

\* identifiers that look like Ensembl, UCSC or RefSeq ids, or nearly so
EnsLike ==
    {p \o [k \in 1..n |-> d] \o sfx :
        p \in {<<"E","N","S","T">>, <<"E","N","S","G">>, <<"E","N","S","P">>, <<"e","n","s","t">>, <<"A","E","N","S","T">>},
        n \in {10, 11, 12}, d \in {"0", "7"},
        sfx \in {<<>>, <<".","1">>, <<"x">>, <<"-">>}}
UcscLike ==
    {<<"u","c","0","0","2","g","i","j",".","4">>,
     <<"u","c","0","0","2","g","i","j",".">>,
     <<"u","c","0","0","2","g","i","j">>,
     <<"u","c","0","2","g","i","j",".","4">>,
     <<"u","c","0","0","2","g","i",".","4">>,
     <<"u","c","0","0","2","g","i","J",".","4">>,
     <<"U","c","0","0","2","g","i","j",".","4">>,
     <<"u","c","0","0","2","g","i","j","-","4">>,
     <<"x","u","c","0","0","2","g","i","j",".","4">>,
     <<"u","c","-","-","-","-","-",".","-">>,
     <<"u","c">>}
RefSeqLike ==
    {a \o b \o c \o sfx :
        a \in {<<"N">>, <<"X">>, <<"n">>, <<"Y">>}, b \in {<<"G">>, <<"M">>, <<"R">>, <<"m">>},
        c \in {<<"_">>, <<"-">>, <<>>}, sfx \in {<<>>, <<"0","0","0","5","4","6">>, <<"-">>}}

Alphabet == {"N", "M", "_", "a", "5"}
IdPool == SeqsUpTo(Alphabet, MaxSymLen) \cup EnsLike \cup UcscLike \cup RefSeqLike
             \cup BatchIds \cup {id_ENST_A2, id_ENST_B, id_ENSG_B, id_BRCA1}

-----------------------------------------------------------------------------
(* Inputs: annotations *)

Transcripts == {id_ENST_A1, id_ENST_A2, id_ENST_B}
gene_id_of(tr) == IF tr = id_ENST_B THEN id_ENSG_B ELSE id_ENSG_A
gene_name_of(tr) == IF tr = id_ENST_B THEN id_BRCA1 ELSE id_TP53

Coords == {1000, 2000}      \* start coordinates of the rows
Widths == {2, 5}            \* end - start of the rows

Row(tr, feature, start, width, strand, appris) ==
    [seqname |-> "chr17", start |-> start, end |-> start + width, strand |-> strand,
     feature |-> feature, gene_id |-> gene_id_of(tr), gene_name |-> gene_name_of(tr),
     transcript_id |-> tr, transcript_name |-> gene_name_of(tr) \o <<"-">> \o SubSeq(tr, 13, 15),
     appris_principal |-> appris]

Rows(strands) ==
    {Row(tr, f, s, w, st, a) :
        tr \in Transcripts, f \in {"start_codon", "exon"}, s \in Coords, w \in Widths,
        st \in strands, a \in {NaN, "1"}}

\* a well-formed gene: one principal transcript with its start codon, one other
GoodAnnot(strand, start) ==
    <<Row(id_ENST_A1, "exon", start, 5, strand, "1"),
      Row(id_ENST_A1, "start_codon", start, 2, strand, "1"),
      Row(id_ENST_A2, "start_codon", 2000, 2, strand, NaN)>>

DefaultUp == 1000
DefaultDown == 500
Offsets == (-MaxOffset)..MaxOffset

-----------------------------------------------------------------------------
(* Initial states: the arguments and the loaded annotation, main at the top *)
(* of its loop                                                              *)

InitBatch ==
    /\ annot \in {GoodAnnot(st, 1000) : st \in {"+", "-"}}
    /\ identifiers \in SeqsUpTo(BatchIds, MaxBatch) \ {<<>>}
    /\ up = DefaultUp /\ down = DefaultDown

InitClassify ==
    /\ annot = GoodAnnot("+", 1000)
    /\ identifiers \in {<<id>> : id \in IdPool}
    /\ up = DefaultUp /\ down = DefaultDown

InitValidate ==
    /\ annot \in SeqsUpTo(Rows({"+"}), MaxRows)
    /\ identifiers \in {<<id_TP53>>, <<id_ENSG_A>>, <<id_ENST_A1>>}
    /\ up = DefaultUp /\ down = DefaultDown

InitRegion ==
    /\ annot \in {GoodAnnot(st, s) : st \in {"+", "-"}, s \in Coords}
    /\ identifiers \in {<<id_TP53>>, <<id_ENST_A1>>}
    /\ up \in Offsets \cup {DefaultUp}
    /\ down \in Offsets \cup {DefaultDown}

Init ==
    /\ (InitBatch \/ InitClassify \/ InitValidate \/ InitRegion)
    /\ i = 1
    /\ pc = "decode"
    /\ id_type = None
    /\ id_column = ""
    /\ primary_isoform = <<>>
    /\ region = NoRegion
    /\ stdout = <<>>
    /\ validated = <<>>
    /\ extractions = <<>>
    /\ error = "none"

-----------------------------------------------------------------------------
(* main: the body of `for identifier in args.identifiers` *)

\* `continue`, or the end of the body: the next identifier, or the end of main
next_pc == IF i + 1 > Len(identifiers) THEN "done" ELSE "decode"

\* lines 240-244
Decode ==
    /\ pc = "decode"
    /\ LET d == decode_id(identifiers[i])
       IN /\ id_type' = d.ret
          /\ IF d.ret \notin DOMAIN id_gff3_names
             THEN /\ stdout' = stdout \o d.out
                  /\ pc' = "crashed"
                  /\ error' = "KeyError"
                  /\ UNCHANGED id_column
             ELSE /\ id_column' = id_gff3_names[d.ret]
                  /\ stdout' = stdout \o d.out \o
                        (IF d.ret # None
                         THEN <<info(<<identifiers[i], " => ", id_descriptions[d.ret]>>)>>
                         ELSE <<>>)
                  /\ pc' = "validate"
                  /\ UNCHANGED error
    /\ UNCHANGED <<annot, identifiers, up, down, i, primary_isoform, region,
                   validated, extractions>>

\* lines 245-254
Validate ==
    /\ pc = "validate"
    /\ LET v == validate_identifier(annot, id_column, identifiers[i])
           p == pick_primary_isoform(annot, id_column, identifiers[i])
       IN IF v.raised # "none"
          THEN /\ pc' = "crashed" /\ error' = v.raised
               /\ UNCHANGED <<i, stdout, validated, primary_isoform>>
          ELSE IF ~ v.ret
          THEN /\ stdout' = stdout \o v.out \o <<blank>>
               /\ i' = i + 1 /\ pc' = next_pc
               /\ UNCHANGED <<error, validated, primary_isoform>>
          ELSE IF p.raised # "none"
          THEN /\ pc' = "crashed" /\ error' = p.raised
               /\ validated' = Append(validated, identifiers[i])
               /\ stdout' = stdout \o v.out
               /\ UNCHANGED <<i, primary_isoform>>
          ELSE /\ validated' = Append(validated, identifiers[i])
               /\ primary_isoform' = p.ret
               /\ stdout' = stdout \o v.out
               /\ pc' = "region"
               /\ UNCHANGED <<i, error>>
    /\ UNCHANGED <<annot, identifiers, up, down, id_type, id_column, region, extractions>>

\* lines 255-258
ComputeRegion ==
    /\ pc = "region"
    /\ LET g == do_gff3_stuff(transcript_rows(annot, primary_isoform), id_column,
                              identifiers[i], up, down)
       IN IF g.raised # "none"
          THEN /\ pc' = "crashed" /\ error' = g.raised
               /\ UNCHANGED <<i, region, stdout>>
          ELSE /\ region' = g.ret
               /\ IF ~ Region_bool(g.ret)
                  THEN /\ stdout' = Append(stdout, blank)
                       /\ i' = i + 1 /\ pc' = next_pc
                  ELSE /\ pc' = "extract"
                       /\ UNCHANGED <<i, stdout>>
               /\ UNCHANGED error
    /\ UNCHANGED <<annot, identifiers, up, down, id_type, id_column, primary_isoform,
                   validated, extractions>>

\* lines 259-261; the installed bedtools decides the probe and the exit code
Extract ==
    /\ pc = "extract"
    /\ \E probe \in ProbeOutcomes, returncode \in ExitCodes :
        LET fastaout_fn == identifiers[i] \o <<".", "f", "a">>
            b == bedtools_cmd(region, identifiers[i], fastaout_fn, probe, returncode)
        IN /\ extractions' = Append(extractions, b.call)
           /\ IF b.raised # "none"
              THEN /\ pc' = "crashed" /\ error' = b.raised
                   /\ UNCHANGED <<i, stdout>>
              ELSE /\ stdout' = stdout \o b.out \o <<blank>>
                   /\ i' = i + 1 /\ pc' = next_pc
                   /\ UNCHANGED error
    /\ UNCHANGED <<annot, identifiers, up, down, id_type, id_column, primary_isoform,
                   region, validated>>

Next == Decode \/ Validate \/ ComputeRegion \/ Extract

Spec == Init /\ [][Next]_vars

-----------------------------------------------------------------------------
(* The identifier kinds as spec.md section 4.1 words them *)

StartsWith(id, prefix) ==
    Len(id) >= Len(prefix) /\ SubSeq(id, 1, Len(prefix)) = prefix
AllIn(id, from, n, cls) ==
    Len(id) >= from + n - 1 /\ \A k \in from..(from + n - 1) : id[k] \in cls
Alnum == Upper \cup Lower \cup Digit

IsEnsemblTranscript(id) == StartsWith(id, <<"E","N","S","T">>) /\ AllIn(id, 5, 11, Digit)
IsEnsemblGene(id) == StartsWith(id, <<"E","N","S","G">>) /\ AllIn(id, 5, 11, Digit)
IsUcsc(id) ==
    /\ StartsWith(id, <<"u","c">>) /\ AllIn(id, 3, 3, Digit) /\ AllIn(id, 6, 3, Lower)
    /\ AllIn(id, 9, 1, {"."})
IsRefSeq(id) == AllIn(id, 1, 1, {"N","X"}) /\ AllIn(id, 2, 1, {"G","M"}) /\ AllIn(id, 3, 1, {"_"})
NoneOfFirstFour(id) ==
    ~ IsEnsemblTranscript(id) /\ ~ IsEnsemblGene(id) /\ ~ IsUcsc(id) /\ ~ IsRefSeq(id)
\* the token begins with an uppercase letter or digit, followed by an alphanumeric
BeginsAsSymbol(id) == AllIn(id, 1, 1, Upper \cup Digit) /\ AllIn(id, 2, 1, Alnum)
\* the Symbol pattern matches somewhere in the token
MatchesSymbolPattern(id) ==
    \E k \in 1..(Len(id) - 1) : id[k] \in Upper \cup Digit /\ id[k + 1] \in Alnum

\* main has left its loop, normally or by an uncaught exception
Terminated == pc \in {"done", "crashed"}
\* the identifier at position k has been taken up by the loop
Reached(k) == k < i \/ (k = i /\ pc # "decode" /\ pc # "done")
\* the loop has gone past position k
Passed(k) == k < i

WarnedAbout(id) ==
    \E n \in DOMAIN stdout :
        /\ stdout[n].level = "[* ]"
        /\ stdout[n].msg[Len(stdout[n].msg)] = id

-----------------------------------------------------------------------------
(* Claims *)

\* C4: classification is first-match-wins over ENST, ENSG, UCSC, RefSeq, Symbol:
\* ENST plus 11 digits is always Ensembl-transcript with column transcript_id,
\* ENSG plus 11 digits always Ensembl-gene with column gene_id, and Symbol with
\* column gene_name is returned only when none of the first four patterns match.
C4_FirstMatchWins ==
    pc = "validate" =>
        LET id == identifiers[i]
        IN /\ IsEnsemblTranscript(id) => (id_type = ENST /\ id_column = "transcript_id")
           /\ IsEnsemblGene(id) => (id_type = ENSG /\ id_column = "gene_id")
           /\ (~ IsEnsemblTranscript(id) /\ ~ IsEnsemblGene(id) /\ IsUcsc(id))
                 => id_type = UCSC
           /\ (~ IsEnsemblTranscript(id) /\ ~ IsEnsemblGene(id) /\ ~ IsUcsc(id)
                  /\ IsRefSeq(id)) => id_type = REFSEQ
           /\ id_type = SYMBOL =>
                 (NoneOfFirstFour(id) /\ MatchesSymbolPattern(id) /\ id_column = "gene_name")

\* an Ensembl transcript id, which the Symbol pattern matches too, classified ENST
C4_Witness ==
    /\ pc = "validate" /\ id_type = ENST /\ id_column = "transcript_id"
    /\ IsEnsemblTranscript(identifiers[i]) /\ MatchesSymbolPattern(identifiers[i])

\* C5: an identifier that matches none of the first four patterns is Symbol only
\* if it begins with an uppercase letter or digit followed by an alphanumeric;
\* one that does not begin that way is Unknown.
C5_SymbolOnlyAtStart ==
    (pc # "decode" /\ pc # "done" /\ NoneOfFirstFour(identifiers[i])) =>
        /\ id_type = SYMBOL => BeginsAsSymbol(identifiers[i])
        /\ ~ BeginsAsSymbol(identifiers[i]) => id_type = None

\* C2: an Unknown identifier is only warned about and skipped: the run does not
\* end on it, it is never extracted, and the loop goes on to the identifiers
\* after it.
C2_UnknownSkipped ==
    \A k \in DOMAIN identifiers :
        (Reached(k) /\ decode_id(identifiers[k]).ret = None) =>
            /\ WarnedAbout(identifiers[k])
            /\ ~ (pc = "crashed" /\ i = k)
            /\ Terminated => Passed(k) \/ pc = "done"
            /\ \A n \in DOMAIN extractions : extractions[n].identifier # identifiers[k]

\* C6: a UCSC or RefSeq identifier fails validation: it is warned about and
\* skipped without an extraction, and the run does not end on it.
C6_PlaceholderSkipped ==
    \A k \in DOMAIN identifiers :
        (Reached(k) /\ decode_id(identifiers[k]).ret \in {UCSC, REFSEQ}) =>
            /\ ~ (pc = "crashed" /\ i = k)
            /\ Passed(k) => WarnedAbout(identifiers[k])
            /\ \A n \in DOMAIN extractions : extractions[n].identifier # identifiers[k]

\* C8: when the version probe or the getfasta run fails for an identifier, a
\* warning about that identifier is printed and the run does not end on it.
C8_ToolFailureWarned ==
    \A n \in DOMAIN extractions :
        (extractions[n].probe_failed \/ extractions[n].exit # 0) =>
            /\ WarnedAbout(extractions[n].identifier)
            /\ ~ (pc = "crashed" /\ error = "CalledProcessError" /\ n = Len(extractions))

\* the rows validate is about, as spec.md section 4.2 words them
RowsOf(column, id) == {k \in DOMAIN annot : annot[k][column] = id}
PrincipalCodonPairs(column, id) ==
    {<<annot[k].start, annot[k].end>> :
        k \in {m \in RowsOf(column, id) :
                 annot[m].appris_principal # NaN /\ annot[m].feature = "start_codon"}}

FirstCodon ==
    LET S == {k \in DOMAIN annot : /\ annot[k].transcript_id = primary_isoform
                                   /\ annot[k].feature = "start_codon"}
    IN annot[CHOOSE k \in S : \A j \in S : k <= j]

\* C3: computeRegion returns Region(seqname, name = identifier, score '.', strand)
\* with start = CDS - upstream, end = CDS + downstream on '+', and
\* start = CDS - downstream, end = CDS + upstream on '-'; end - start is
\* upstream + downstream on both strands; CDS 1000, upstream 1000, downstream 500
\* gives (0, 1500) on '+' and (500, 2000) on '-'.
C3_RegionArithmetic ==
    pc = "extract" =>
        LET CDS == FirstCodon.start
        IN /\ region.chrom = FirstCodon.seqname
           /\ region.name = identifiers[i]
           /\ region.score = "."
           /\ region.strand = FirstCodon.strand
           /\ FirstCodon.strand = "+" =>
                 (region.start = CDS - up /\ region.end = CDS + down)
           /\ FirstCodon.strand = "-" =>
                 (region.start = CDS - down /\ region.end = CDS + up)
           /\ region.end - region.start = up + down
           /\ (CDS = 1000 /\ up = 1000 /\ down = 500 /\ FirstCodon.strand = "+") =>
                 (region.start = 0 /\ region.end = 1500)
           /\ (CDS = 1000 /\ up = 1000 /\ down = 500 /\ FirstCodon.strand = "-") =>
                 (region.start = 500 /\ region.end = 2000)

\* the minus-strand example of the claim
C3_Witness ==
    /\ pc = "extract" /\ FirstCodon.strand = "-" /\ FirstCodon.start = 1000
    /\ up = 1000 /\ down = 500
    /\ region.start = 500 /\ region.end = 2000

\* C7 as stated: there are a minus-strand start codon and non-negative offsets
\* for which the Region has start > end.
C7_MinusCanInvert ==
    \E s \in Coords, u \in 0..DefaultUp, d \in 0..DefaultUp :
        LET g == do_gff3_stuff(<<Row(id_ENST_A1, "start_codon", s, 2, "-", "1")>>,
                               id_column, identifiers[1], u, d)
        IN g.ret.start > g.ret.end

\* C7 amended: on the minus strand start > end exactly when
\* upstream + downstream < 0; with non-negative offsets start <= end, also
\* when upstream # downstream.
C7_MinusOrdered ==
    (pc = "extract" /\ region.strand = "-") =>
        /\ (region.start > region.end) <=> (up + down < 0)
        /\ (up >= 0 /\ down >= 0) => region.start <= region.end

\* a minus-strand Region from unequal non-negative offsets, in order
C7_Witness ==
    /\ pc = "extract" /\ region.strand = "-"
    /\ up >= 0 /\ down >= 0 /\ up # down
    /\ region.start < region.end

\* C9: the calls of the Sequence Extractor are exactly the identifiers for which
\* validate returned true, in order, one call each, writing '<identifier>.fa'.
C9_ExtractionsAreValidated ==
    pc \in {"decode", "done", "crashed"} =>
        /\ [n \in DOMAIN extractions |-> extractions[n].identifier] = validated
        /\ \A n \in DOMAIN extractions :
              extractions[n].fasta_out = extractions[n].identifier \o <<".", "f", "a">>

\* C10: after validate returned true, picking the principal transcript and
\* reading its first start_codon row raise no index error, and the Region is
\* anchored at the start of the one principal start-codon pair validate counted.
C10_ValidatedIsSafe ==
    /\ error # "IndexError"
    /\ pc = "extract" =>
          LET anchor == IF region.strand = "+" THEN region.start + up
                        ELSE region.start + down
          IN PrincipalCodonPairs(id_column, identifiers[i]) \subseteq
                {<<anchor, e>> : e \in {annot[k].end : k \in DOMAIN annot}}

====
